---- MODULE Spec2Model ----
(***************************************************************************)
(* Model of pkg/apply/apply.go: DefaulterApply.Run, the incremental        *)
(* capacity search of open-simulator.  Run parses and validates the        *)
(* configuration, loads the applications, and then, for i = 0 .. 99,       *)
(* builds a new simulator, synchronises the cluster into it, adds i new    *)
(* nodes and schedules the applications one after the other.               *)
(*                                                                         *)
(* The simulator package (simulator.New, CreateFakeCluster, AddNewNode,    *)
(* GenerateValidPodsFromResources, GenerateValidDaemonPodsForNewNode,      *)
(* SchedulePods, Close) and algo.NewGreedQueue are not part of apply.go;   *)
(* they are modelled from their contracts: a snapshot is the sequence of   *)
(* the free capacities of its nodes and the scheduler is a first-fit       *)
(* capacity counter.                                                       *)
(***************************************************************************)
EXTENDS Integers, Sequences, FiniteSets, TLC

(* ------------------------------ bounds --------------------------------- *)
MaxApps == 2          \* longest AppList
MaxUnits == 3         \* most pods one application expands to
MaxCap == 2           \* largest free capacity of a node, in pod slots
MaxDaemonSets == 1    \* most daemonsets in the cluster
FaultTrials == 2      \* trial sizes at which the scheduler may fail for other reasons

(* ------------------------- program constants --------------------------- *)
MaxRounds == 100      \* for i := 0; i < 100; i++

(* A pod larger than any node: an application made of it never schedules. *)
BigSize == MaxCap + 1

(* What the manifest loader returns for an application: n pods of one size *)
Workloads ==
  { [n |-> c, size |-> 1] : c \in {1} \cup (3..MaxUnits) } \cup { [n |-> 1, size |-> BigSize] }

RECURSIVE SeqsUpTo(_, _)
SeqsUpTo(S, len) ==
  IF len = 0 THEN { <<>> }
  ELSE LET shorter == SeqsUpTo(S, len - 1)
       IN  shorter \cup { Append(s, x) : s \in { t \in shorter : Len(t) = len - 1 }, x \in S }

AppLists == SeqsUpTo(Workloads, MaxApps)

(* The content of the simon configuration file, as ParseArgsAndConfigFile  *)
(* stores it in the applier.  A BOOLEAN stands for a non-empty string.     *)
SimonConfigs ==
  [ KubeConfig : BOOLEAN, CustomCluster : BOOLEAN,
    AppList : AppLists, NewNode : 2..MaxCap ]

Options == [ UseGreed : BOOLEAN, Interactive : BOOLEAN ]

VARIABLES
  pc,            \* position of Run
  opts,          \* the Options Run was called with
  Cluster,       \* applier.Cluster: which sources are named
  AppList,       \* applier.AppList
  NewNode,       \* applier.NewNode: capacity of the node template
  UseGreed,      \* applier.UseGreed
  resourceList,  \* Run's local resourceList
  kubeClient,    \* "nil" or "client"
  i,             \* the loop counter of Step 5
  idx,           \* position of the range loop over resourceList (1-based)
  success,       \* Run's local success
  added,         \* Run's local added
  simId,         \* number of simulators constructed so far
  openSims,      \* simulators constructed and not yet closed
  nodes,         \* free capacity of each node of the current fake cluster
  report,        \* the persisted config map file, or NoReport
  ret,           \* what Run returned: "none" while running, "nil", "error"
  baseCap,       \* environment: free capacity of the base cluster's node
  nDaemonSets,   \* environment: daemonsets of the base cluster
  outcome,       \* history: "running", "succeeded", "exhausted", "fatal"
  errFrom,       \* history: the call whose failure Run returned, or "none"
  reportedK,     \* history: the i at which Run left the loop with success
  failed,        \* history: trial sizes whose round concluded without success
  nConcluded,    \* history: number of rounds that reached sim.Close()
  log,           \* history: the submissions of the current round
  daemonGen      \* history: calls of GenerateValidDaemonPodsForNewNode this round

cfgVars == <<opts, Cluster, AppList, NewNode, UseGreed>>
envVars == <<baseCap, nDaemonSets>>
loopVars == <<i, idx, success, added>>
simVars == <<simId, openSims, nodes>>
histVars == <<reportedK, failed, nConcluded, log, daemonGen>>
vars == <<pc, cfgVars, envVars, loopVars, simVars, histVars,
          resourceList, kubeClient, report, ret, outcome, errFrom>>

NoReport == [k |-> -1, apps |-> 0]
NoOpts == [UseGreed |-> FALSE, Interactive |-> FALSE]
NoCluster == [KubeConfig |-> FALSE, CustomCluster |-> FALSE]

Init ==
  /\ pc = "parse"
  /\ opts = NoOpts
  /\ Cluster = NoCluster
  /\ AppList = <<>>
  /\ NewNode = 0
  /\ UseGreed = FALSE
  /\ resourceList = <<>>
  /\ kubeClient = "nil"
  /\ i = 0
  /\ idx = 0
  /\ success = FALSE
  /\ added = FALSE
  /\ simId = 0
  /\ openSims = {}
  /\ nodes = <<>>
  /\ report = NoReport
  /\ ret = "none"
  /\ baseCap \in 1..MaxCap
  /\ nDaemonSets \in 0..MaxDaemonSets
  /\ outcome = "running"
  /\ errFrom = "none"
  /\ reportedK = -1
  /\ failed = {}
  /\ nConcluded = 0
  /\ log = <<>>
  /\ daemonGen = 0

(* return fmt.Errorf(...) / return err: Run ends with an error *)
ReturnError(call) ==
  /\ pc' = "done"
  /\ ret' = "error"
  /\ outcome' = "fatal"
  /\ errFrom' = call

(* ---------------------------- Step 0 ----------------------------------- *)
ParseArgsAndConfigFile ==
  /\ pc = "parse"
  /\ \E o \in Options :
       /\ opts' = o
       /\ \/ \E c \in SimonConfigs :
               /\ Cluster' = [KubeConfig |-> c.KubeConfig, CustomCluster |-> c.CustomCluster]
               /\ AppList' = c.AppList
               /\ NewNode' = c.NewNode
               /\ UseGreed' = o.UseGreed
               /\ pc' = "validate"
               /\ UNCHANGED <<ret, outcome, errFrom>>
          \/ /\ ReturnError("ParseArgsAndConfigFile")
             /\ UNCHANGED <<Cluster, AppList, NewNode, UseGreed>>
  /\ UNCHANGED <<envVars, loopVars, simVars, histVars, resourceList, kubeClient,
                 report>>

(* only the absence of both sources is rejected *)
SourceConflict_NeitherOnly(c) == ~c.KubeConfig /\ ~c.CustomCluster

(* The first test of Validate: exactly one cluster source must be named *)
SourceConflict(c) ==
  \/ ~c.KubeConfig /\ ~c.CustomCluster
  \/ c.KubeConfig /\ c.CustomCluster

(* statOk: every os.Stat of Validate succeeds *)
Validate ==
  /\ pc = "validate"
  /\ \E statOk \in BOOLEAN :
       IF SourceConflict(Cluster) \/ ~statOk
       THEN ReturnError("Validate")
       ELSE pc' = "load" /\ UNCHANGED <<ret, outcome, errFrom>>
  /\ UNCHANGED <<cfgVars, envVars, loopVars, simVars, histVars, resourceList,
                 kubeClient, report>>

(* an application that cannot be loaded is left out and Run goes on *)
LoadApp_Tolerant ==
  /\ pc = "load"
  /\ IF Len(resourceList) < Len(AppList)
     THEN \E loaded \in BOOLEAN :
            IF loaded
            THEN /\ resourceList' = Append(resourceList,
                       [Name |-> Len(resourceList) + 1,
                        Resource |-> AppList[Len(resourceList) + 1]])
                 /\ UNCHANGED pc
            ELSE pc' = "newnode" /\ UNCHANGED resourceList
     ELSE /\ pc' = "newnode"
          /\ UNCHANGED resourceList
  /\ UNCHANGED <<cfgVars, envVars, loopVars, simVars, histVars, kubeClient,
                 report, ret, outcome, errFrom>>

(* One iteration of the loop over applier.AppList (Steps 1 and 2), or its end *)
LoadApp ==
  /\ pc = "load"
  /\ IF Len(resourceList) < Len(AppList)
     THEN \E loaded \in BOOLEAN :
            IF loaded
            THEN /\ resourceList' = Append(resourceList,
                       [Name |-> Len(resourceList) + 1,
                        Resource |-> AppList[Len(resourceList) + 1]])
                 /\ UNCHANGED <<pc, ret, outcome, errFrom>>
            ELSE ReturnError("GetObjectsFromFiles") /\ UNCHANGED resourceList
     ELSE /\ pc' = "newnode"
          /\ UNCHANGED <<resourceList, ret, outcome, errFrom>>
  /\ UNCHANGED <<cfgVars, envVars, loopVars, simVars, histVars, kubeClient,
                 report>>

(* newNode, exist := utils.DecodeYamlFile(applier.NewNode) as a corev1.Node *)
DecodeNewNode ==
  /\ pc = "newnode"
  /\ \E exist \in BOOLEAN :
       IF exist THEN pc' = "kubeclient" /\ UNCHANGED <<ret, outcome, errFrom>>
       ELSE ReturnError("DecodeYamlFile")
  /\ UNCHANGED <<cfgVars, envVars, loopVars, simVars, histVars, resourceList,
                 kubeClient, report>>

(* Step 3 *)
generateKubeClient ==
  /\ pc = "kubeclient"
  /\ IF ~Cluster.KubeConfig
     THEN /\ kubeClient' = "nil"
          /\ pc' = "schedconfig"
          /\ UNCHANGED <<ret, outcome, errFrom>>
     ELSE \E built \in BOOLEAN :
            IF built
            THEN /\ kubeClient' = "client"
                 /\ pc' = "schedconfig"
                 /\ UNCHANGED <<ret, outcome, errFrom>>
            ELSE ReturnError("generateKubeClient") /\ UNCHANGED kubeClient
  /\ UNCHANGED <<cfgVars, envVars, loopVars, simVars, histVars, resourceList,
                 report>>

(* i <= 100: one round too many *)
LoopCond_Inclusive(k) == k <= MaxRounds

(* i < 100 *)
LoopCond(k) == k < MaxRounds

(* Step 4, and the entry into the loop of Step 5 with i := 0 *)
getAndSetSchedulerConfig ==
  /\ pc = "schedconfig"
  /\ \E inited \in BOOLEAN :
       IF inited
       THEN /\ pc' = IF LoopCond(0) THEN "setup" ELSE "done"
            /\ ret' = IF LoopCond(0) THEN ret ELSE "nil"
            /\ outcome' = IF LoopCond(0) THEN outcome ELSE "exhausted"
            /\ UNCHANGED errFrom
            /\ i' = 0
            /\ UNCHANGED <<idx, success, added>>
       ELSE ReturnError("getAndSetSchedulerConfig") /\ UNCHANGED loopVars
  /\ UNCHANGED <<cfgVars, envVars, simVars, histVars, resourceList, kubeClient,
                 report>>

(* ------------------ the simulator package, by contract ------------------ *)
(* simulator.New: a simulator whose fake cluster holds no node yet *)
NewFakeCluster == <<>>

(* sim.CreateFakeCluster: the nodes of the base cluster enter the fake cluster *)
CreateFakeCluster(ns, base) == ns \o <<base>>

(* sim.AddNewNode(newNode, count): count copies of the template are appended *)
AddNewNode(ns, node, count) == ns \o [j \in 1..count |-> node]

(* simulator.GenerateValidPodsFromResources: the pods of one application *)
GenerateValidPodsFromResources(name, res) ==
  [j \in 1..res.n |->
     [class |-> "ordinary", app |-> name, id |-> j, size |-> res.size, node |-> 0]]

(* sim.GenerateValidDaemonPodsForNewNode: one pod per daemonset and node, *)
(* each pinned to its node                                                *)
DaemonSize == 1
GenerateValidDaemonPodsForNewNode(ns, nds) ==
  [j \in 1..(Len(ns) * nds) |->
     [class |-> "daemon", app |-> 0, id |-> j, size |-> DaemonSize,
      node |-> ((j - 1) \div nds) + 1]]

(* algo.NewGreedQueue + sort.Sort: pinned pods first, then larger pods     *)
(* first; pods of equal rank keep their order                              *)
GreedRank(p) == IF p.node # 0 THEN BigSize + 1 ELSE p.size

RECURSIVE SortFrom(_, _)
SortFrom(pods, rank) ==
  IF rank < 0 THEN <<>>
  ELSE SelectSeq(pods, LAMBDA p : GreedRank(p) = rank) \o SortFrom(pods, rank - 1)

GreedSort(pods) == SortFrom(pods, BigSize + 1)

(* The node the scheduler binds pod p to in ns, or 0 when none can take it *)
FitNode(ns, p) ==
  IF p.node # 0
  THEN IF ns[p.node] >= p.size THEN p.node ELSE 0
  ELSE IF \E m \in 1..Len(ns) : ns[m] >= p.size
       THEN CHOOSE m \in 1..Len(ns) :
              /\ ns[m] >= p.size
              /\ \A l \in 1..(m - 1) : ns[l] < p.size
       ELSE 0

(* sim.SchedulePods: the pods are bound in the given order; the call fails *)
(* at the first pod that fits nowhere and keeps the bindings made so far   *)
RECURSIVE SchedulePods(_, _)
SchedulePods(ns, pods) ==
  IF pods = <<>> THEN [nodes |-> ns, err |-> "nil"]
  ELSE LET p == Head(pods)
           m == FitNode(ns, p)
       IN  IF m = 0 THEN [nodes |-> ns, err |-> "unschedulable"]
           ELSE SchedulePods([ns EXCEPT ![m] = @ - p.size], Tail(pods))

NumDaemon(pods) == Len(SelectSeq(pods, LAMBDA p : p.class = "daemon"))

(* ------------------------------ Step 5 ---------------------------------- *)
(* i += 2: a trial size is skipped *)
NextTrial_Skip(k) == k + 2

(* i++ *)
NextTrial(k) == k + 1

(* sim.AddNewNode(newNode, i+1): one node too many *)
TrialNodes_OffByOne(k) == k + 1

(* the count handed to sim.AddNewNode(newNode, i) *)
TrialNodes(k) == k

(* the assignment added = true is missing *)
AddedAfter_Keep(a) == a

(* added = true after the daemon pods were appended *)
AddedAfter(a) == TRUE

(* the error of SchedulePods is ignored *)
BreakOnError_Never(err) == FALSE

(* err != nil: break *)
BreakOnError(err) == err # "nil"

(* if opts.Interactive { if utils.Confirm(prompt) { continue } else { break } } *)
BreakOnAnswer(interactive, answer) == interactive /\ ~answer

(* if success { ...; break } *)
LeaveLoop(s) == s

(* one simulator, constructed before the loop, serves every iteration *)
RoundCluster_Reuse(prev) == prev

(* Each iteration constructs its own simulator: its fake cluster starts    *)
(* empty and takes nothing from prev, the previous iteration's             *)
RoundCluster(prev) == NewFakeCluster

(* The head of one iteration of Step 5, up to the range loop:              *)
(*   sim, err := simulator.New(kubeClient, cc); sim.RunScheduler()          *)
(*   sim.CreateFakeCluster(applier.Cluster.CustomCluster)                   *)
(*   sim.AddNewNode(newNode, i); success, added := false, false             *)
(* Each of the three calls may fail, and Run then returns the error.        *)
RoundSetup ==
  /\ pc = "setup"
  /\ \E created \in BOOLEAN, synced \in BOOLEAN, appended \in BOOLEAN :
       IF ~created
       THEN ReturnError("simulator.New") /\ UNCHANGED <<simVars, idx, success, added>>
       ELSE /\ simId' = simId + 1
            /\ openSims' = openSims \cup {simId + 1}
            /\ IF ~synced
               THEN /\ nodes' = RoundCluster(nodes)
                    /\ ReturnError("CreateFakeCluster")
                    /\ UNCHANGED <<idx, success, added>>
               ELSE IF ~appended
               THEN /\ nodes' = CreateFakeCluster(RoundCluster(nodes), baseCap)
                    /\ ReturnError("AddNewNode")
                    /\ UNCHANGED <<idx, success, added>>
               ELSE /\ nodes' = AddNewNode(CreateFakeCluster(RoundCluster(nodes), baseCap),
                                           NewNode, TrialNodes(i))
                    /\ success' = FALSE
                    /\ added' = FALSE
                    /\ idx' = 1
                    /\ pc' = IF Len(resourceList) = 0 THEN "close" ELSE "apps"
                    /\ UNCHANGED <<ret, outcome, errFrom>>
  /\ log' = <<>>
  /\ daemonGen' = 0
  /\ UNCHANGED <<cfgVars, envVars, i, reportedK, failed, nConcluded,
                 resourceList, kubeClient, report>>

(* the daemon pods are put in front of the application's pods *)
ExpandedPods_DaemonFirst ==
  LET own == GenerateValidPodsFromResources(resourceList[idx].Name, resourceList[idx].Resource)
  IN  IF ~added THEN GenerateValidDaemonPodsForNewNode(nodes, nDaemonSets) \o own ELSE own

(* appPods of the iteration at idx, before sorting *)
ExpandedPods ==
  LET own == GenerateValidPodsFromResources(resourceList[idx].Name, resourceList[idx].Resource)
  IN  IF ~added THEN own \o GenerateValidDaemonPodsForNewNode(nodes, nDaemonSets) ELSE own

(* appPods as handed to sim.SchedulePods *)
SubmittedPods == IF UseGreed THEN GreedSort(ExpandedPods) ELSE ExpandedPods

(* err != nil: return err, instead of break *)
ScheduleApp_ReturnErr ==
  /\ pc = "apps"
  /\ idx \in 1..Len(resourceList)
  /\ \E fault \in {f \in BOOLEAN : f => i < FaultTrials}, saved \in BOOLEAN, answer \in BOOLEAN :
       LET res == IF fault THEN [nodes |-> nodes, err |-> "scheduler error"]
                  ELSE SchedulePods(nodes, SubmittedPods)
           last == idx = Len(resourceList)
       IN  /\ added' = IF ~added THEN AddedAfter(added) ELSE added
           /\ daemonGen' = IF ~added THEN daemonGen + 1 ELSE daemonGen
           /\ nodes' = res.nodes
           /\ log' = Append(log, [app |-> resourceList[idx].Name,
                                  nPods |-> Len(SubmittedPods),
                                  nDaemon |-> NumDaemon(SubmittedPods),
                                  err |-> res.err])
           /\ IF BreakOnError(res.err)
              THEN /\ success' = FALSE
                   /\ ReturnError("SchedulePods")
                   /\ UNCHANGED <<idx, report>>
              ELSE /\ success' = TRUE
                   /\ IF saved
                      THEN /\ report' = [k |-> i, apps |-> idx]
                           /\ IF BreakOnAnswer(opts.Interactive, answer) \/ last
                              THEN pc' = "close" /\ UNCHANGED idx
                              ELSE pc' = "apps" /\ idx' = idx + 1
                           /\ UNCHANGED <<ret, outcome, errFrom>>
                      ELSE /\ ReturnError("CreateConfigMapAndSaveItToFile")
                           /\ UNCHANGED <<idx, report>>
  /\ UNCHANGED <<cfgVars, envVars, i, simId, openSims, reportedK, failed,
                 nConcluded, resourceList, kubeClient>>

(* One iteration of the range loop over resourceList.  fault: SchedulePods *)
(* fails for a reason other than capacity; saved: the config map file was   *)
(* written; answer: the operator's reply to utils.Confirm.                  *)
ScheduleApp ==
  /\ pc = "apps"
  /\ idx \in 1..Len(resourceList)
  /\ \E fault \in {f \in BOOLEAN : f => i < FaultTrials}, saved \in BOOLEAN, answer \in BOOLEAN :
       LET res == IF fault THEN [nodes |-> nodes, err |-> "scheduler error"]
                  ELSE SchedulePods(nodes, SubmittedPods)
           last == idx = Len(resourceList)
       IN  /\ added' = IF ~added THEN AddedAfter(added) ELSE added
           /\ daemonGen' = IF ~added THEN daemonGen + 1 ELSE daemonGen
           /\ nodes' = res.nodes
           /\ log' = Append(log, [app |-> resourceList[idx].Name,
                                  nPods |-> Len(SubmittedPods),
                                  nDaemon |-> NumDaemon(SubmittedPods),
                                  err |-> res.err])
           /\ IF BreakOnError(res.err)
              THEN /\ success' = FALSE
                   /\ pc' = "close"
                   /\ UNCHANGED <<idx, report, ret, outcome, errFrom>>
              ELSE /\ success' = TRUE
                   /\ IF saved
                      THEN /\ report' = [k |-> i, apps |-> idx]
                           /\ IF BreakOnAnswer(opts.Interactive, answer) \/ last
                              THEN pc' = "close" /\ UNCHANGED idx
                              ELSE pc' = "apps" /\ idx' = idx + 1
                           /\ UNCHANGED <<ret, outcome, errFrom>>
                      ELSE /\ ReturnError("CreateConfigMapAndSaveItToFile")
                           /\ UNCHANGED <<idx, report>>
  /\ UNCHANGED <<cfgVars, envVars, i, simId, openSims, reportedK, failed,
                 nConcluded, resourceList, kubeClient>>

(* sim.Close(); if success { break }; i++; i < 100; return nil *)
CloseAndConclude ==
  /\ pc = "close"
  /\ openSims' = openSims \ {simId}
  /\ nConcluded' = nConcluded + 1
  /\ IF LeaveLoop(success)
     THEN /\ reportedK' = i
          /\ outcome' = "succeeded"
          /\ ret' = "nil"
          /\ pc' = "done"
          /\ UNCHANGED <<i, failed>>
     ELSE /\ failed' = failed \cup {i}
          /\ i' = NextTrial(i)
          /\ IF LoopCond(NextTrial(i))
             THEN pc' = "setup" /\ UNCHANGED <<ret, outcome>>
             ELSE pc' = "done" /\ ret' = "nil" /\ outcome' = "exhausted"
          /\ UNCHANGED reportedK
  /\ UNCHANGED <<cfgVars, envVars, idx, success, added, simId, nodes,
                 log, daemonGen, resourceList, kubeClient, report, errFrom>>

Next ==
  \/ ParseArgsAndConfigFile
  \/ Validate
  \/ LoadApp
  \/ DecodeNewNode
  \/ generateKubeClient
  \/ getAndSetSchedulerConfig
  \/ RoundSetup
  \/ ScheduleApp
  \/ CloseAndConclude

Spec == Init /\ [][Next]_vars

TypeOK ==
  /\ pc \in {"parse", "validate", "load", "newnode", "kubeclient", "schedconfig",
             "setup", "apps", "close", "done"}
  /\ i \in 0..MaxRounds
  /\ ret \in {"none", "nil", "error"}
  /\ outcome \in {"running", "succeeded", "exhausted", "fatal"}
  /\ (pc = "done") = (ret # "none")
  /\ (ret = "error") = (errFrom # "none")

(* ======================================================================== *)
(*                              Properties                                  *)
(* ======================================================================== *)
InRound == pc \in {"setup", "apps", "close"}

(* No submission of the round's log failed for a reason other than capacity *)
NoFault(l) == \A j \in 1..Len(l) : l[j].err # "scheduler error"

LastFailed(l) == l # <<>> /\ l[Len(l)].err # "nil"

(* The fake cluster a round at trial size k starts from *)
FreshNodes(k) == <<baseCap>> \o [j \in 1..k |-> NewNode]

(* C1: rounds run one at a time, in increasing trial size from 0; while     *)
(* round i runs, exactly the rounds 0..i-1 have concluded, each without     *)
(* success; a session that succeeds reports the trial size of its last      *)
(* round, which is the only round that succeeded.                           *)
C1_LinearSearch ==
  /\ Cardinality(openSims) <= 1
  /\ InRound => (failed = 0..(i - 1) /\ nConcluded = i)
  /\ outcome = "succeeded" =>
       /\ reportedK = i
       /\ failed = 0..(reportedK - 1)
       /\ nConcluded = reportedK + 1

C1_Witness == outcome = "succeeded" /\ reportedK = 2 /\ failed = {0, 1}

(* C2: a round ends the search with success only if every application of   *)
(* the list was submitted in it, in list order, and scheduled in full.      *)
C2_FullSuccessOnly ==
  outcome = "succeeded" =>
    /\ Len(log) = Len(AppList)
    /\ \A j \in 1..Len(log) : log[j].app = j /\ log[j].err = "nil"

(* C3: after a search in which no round succeeded, Run returns something    *)
(* other than the nil it returns after a successful search.                 *)
C3_ExhaustedDistinct == outcome = "exhausted" => ret # "nil"

(* C4: with an empty application list the round at trial size 0 succeeds    *)
(* and the session ends there, after one round.                             *)
C4_EmptyListSucceeds ==
  (AppList = <<>> /\ nConcluded >= 1) =>
    (outcome = "succeeded" /\ reportedK = 0 /\ nConcluded = 1)

(* C5: once a submission of a round has failed, nothing more is submitted   *)
(* in that round; the round concludes without success, its simulator is     *)
(* closed and the search moves to trial size i+1 (or ends, after the last). *)
C5_Step ==
  LastFailed(log) =>
    /\ pc \in {"close", "setup", "done"}
    /\ log' \in {log, <<>>}
    /\ pc = "close" =>
         /\ ~success
         /\ failed' = failed \cup {i}
         /\ i' = i + 1
         /\ openSims' = {}
         /\ \/ pc' = "setup" /\ i' < MaxRounds
            \/ pc' = "done" /\ i' = MaxRounds /\ outcome' = "exhausted"

C5_AbortRound == [][C5_Step]_vars

C5_Witness ==
  /\ pc = "setup"
  /\ i >= 1
  /\ LastFailed(log)
  /\ Len(log) < Len(resourceList)

(* C6: with the list [A, B], A always scheduling and B never, every round   *)
(* fails at B after A succeeded, the session is never reported successful   *)
(* and it ends exhausted after MaxRounds rounds.                            *)
ScenarioAB ==
  /\ AppList = << [n |-> 1, size |-> 1], [n |-> 1, size |-> BigSize] >>
  /\ Len(resourceList) = 2
  /\ nDaemonSets = 0

C6_ABExhausts ==
  ScenarioAB =>
    /\ outcome # "succeeded"
    /\ (pc = "close" /\ NoFault(log)) =>
         /\ Len(log) = 2
         /\ log[1].err = "nil"
         /\ log[2].err = "unschedulable"
         /\ ~success
    /\ (pc = "done" /\ outcome # "fatal") =>
         (outcome = "exhausted" /\ nConcluded = MaxRounds)

(* C7: base node with 2 free slots, one application of 3 pods, template     *)
(* with 2 slots, no daemon pods, capacity-only scheduler: the round at      *)
(* trial size 0 fails, the round at 1 succeeds and ends the session, which  *)
(* reports 1 after two rounds.                                              *)
Scenario7 ==
  /\ baseCap = 2
  /\ NewNode = 2
  /\ nDaemonSets = 0
  /\ AppList = << [n |-> 3, size |-> 1] >>
  /\ Len(resourceList) = 1

C7_Step ==
  Scenario7 =>
    /\ (pc = "close" /\ i = 0) =>
         (~success /\ pc' = "setup" /\ i' = 1 /\ outcome' = "running")
    /\ (pc = "close" /\ i = 1 /\ NoFault(log)) =>
         /\ success
         /\ pc' = "done"
         /\ outcome' = "succeeded"
         /\ reportedK' = 1
         /\ nConcluded' = 2
         /\ failed' = {0}

C7_ThreeUnits == [][C7_Step]_vars

C7_Witness ==
  /\ Scenario7
  /\ outcome = "succeeded"
  /\ reportedK = 1
  /\ nConcluded = 2

(* C8: in a round that has processed an application, the daemon pods were   *)
(* generated once, all of them are in the first submission of the round     *)
(* and none is in a later one; a round starts with the marker unset.        *)
C8_DaemonOnce ==
  /\ (pc = "apps" /\ log = <<>>) => (~added /\ daemonGen = 0)
  /\ (pc \in {"apps", "close"} /\ log # <<>>) =>
       /\ added
       /\ daemonGen = 1
       /\ log[1].nDaemon = Len(GenerateValidDaemonPodsForNewNode(nodes, nDaemonSets))
       /\ \A j \in 2..Len(log) : log[j].nDaemon = 0

C8_Witness ==
  /\ pc = "close"
  /\ i >= 1
  /\ Len(log) >= 2
  /\ log[1].nDaemon >= 2

(* C9: when the first application of round i is about to be submitted, the  *)
(* fake cluster holds the base node and i template nodes, all of them with  *)
(* their full free capacity, in a simulator constructed in this round and   *)
(* used by no other.                                                        *)
C9_FreshSnapshot ==
  (pc = "apps" /\ log = <<>>) =>
    /\ nodes = FreshNodes(i)
    /\ Len(nodes) = 1 + i
    /\ simId = i + 1
    /\ openSims = {simId}

C9_Witness ==
  /\ pc = "apps"
  /\ log = <<>>
  /\ i >= 2
  /\ report # NoReport

(* C10: a scheduling call that fails for a reason other than capacity       *)
(* aborts the session with a fatal error.                                   *)
C10_FaultIsFatal ==
  (log # <<>> /\ log[Len(log)].err = "scheduler error") => outcome = "fatal"

(* The calls whose failure Run returns: configuration, workload loading,    *)
(* node template, cluster synchronisation, simulator construction and the   *)
(* persistence of the report                                                *)
ReturnedCalls ==
  { "ParseArgsAndConfigFile", "Validate", "getAndSetSchedulerConfig",
    "generateKubeClient", "GetObjectsFromFiles", "DecodeYamlFile", "AddNewNode",
    "CreateFakeCluster", "simulator.New", "CreateConfigMapAndSaveItToFile" }

(* C11: a submission in which a pod could not be bound leaves Run running:  *)
(* the round is left without success and Run returns nothing at that step;  *)
(* whenever Run returns an error it is the failure of one of ReturnedCalls. *)
C11_Step ==
  /\ (Len(log') > Len(log) /\ log'[Len(log')].err = "unschedulable") =>
       /\ ret' = "none"
       /\ outcome' = "running"
       /\ pc' = "close"
       /\ ~success'
       /\ i' = i
  /\ (ret = "none" /\ ret' = "error") =>
       /\ errFrom' \in ReturnedCalls
       /\ ~(Len(log') > Len(log) /\ log'[Len(log')].err # "nil")

C11_PlacementNotError == [][C11_Step]_vars

C11_Witness ==
  /\ pc = "close"
  /\ i >= 1
  /\ log # <<>>
  /\ log[Len(log)].err = "unschedulable"
  /\ ret = "none"

(* C12: Run gets past Validate only with exactly one cluster source named;  *)
(* with both or neither it returns the error of Validate with no workload   *)
(* loaded, no simulator constructed and no round started.                   *)
ExactlyOneSource == Cluster.KubeConfig # Cluster.CustomCluster

C12_OneSource ==
  /\ (pc \notin {"parse", "validate"} /\ errFrom \notin {"ParseArgsAndConfigFile", "Validate"}) =>
       ExactlyOneSource
  /\ (pc = "done" /\ ~ExactlyOneSource) =>
       /\ ret = "error"
       /\ errFrom \in {"ParseArgsAndConfigFile", "Validate"}
       /\ resourceList = <<>>
       /\ simId = 0
       /\ nConcluded = 0
       /\ log = <<>>

C12_Witness ==
  /\ pc = "done"
  /\ Cluster.KubeConfig
  /\ Cluster.CustomCluster
  /\ errFrom = "Validate"
  /\ AppList # <<>>

(* C13: when Run returns the error of CreateFakeCluster, no config map file *)
(* has been written by this run.                                            *)
C13_NoReportOnSyncError ==
  (ret = "error" /\ errFrom = "CreateFakeCluster") => report = NoReport

C16_Bounded ==
  /\ InRound => i < MaxRounds
  /\ nConcluded <= MaxRounds
  /\ simId <= MaxRounds
  /\ (pc = "done" /\ outcome # "fatal") => outcome \in {"succeeded", "exhausted"}
  /\ pc = "apps" => idx \in 1..Len(resourceList)

(* Steps of one round at most: setup, one per application, close *)
RoundCost == MaxApps + 2

(* An upper bound of the number of steps Run can still take *)
Variant ==
  CASE pc = "done"        -> 0
    [] pc = "setup"       -> (MaxRounds - i) * RoundCost
    [] pc = "apps"        -> (MaxRounds - i) * RoundCost - idx
    [] pc = "close"       -> (MaxRounds - i) * RoundCost - (MaxApps + 1)
    [] pc = "schedconfig" -> MaxRounds * RoundCost + 1
    [] pc = "kubeclient"  -> MaxRounds * RoundCost + 2
    [] pc = "newnode"     -> MaxRounds * RoundCost + 3
    [] pc = "load"        -> MaxRounds * RoundCost + 4 + (Len(AppList) - Len(resourceList))
    [] pc = "validate"    -> MaxRounds * RoundCost + 5 + MaxApps
    [] pc = "parse"       -> MaxRounds * RoundCost + 6 + MaxApps

C16_Step ==
  /\ C16_Bounded
  /\ C16_Bounded'
  /\ Variant' < Variant
  /\ Variant' >= 0

C16_Terminates == [][C16_Step]_vars

C16_Witness == outcome = "exhausted" /\ nConcluded = MaxRounds /\ i = MaxRounds

(* C17: the pods handed to SchedulePods for the application at idx are a    *)
(* permutation of the application's pods, followed, for the first           *)
(* application of the round, by the daemon pods; without UseGreed they are  *)
(* handed over in exactly that order.                                       *)
Range(q) == { q[j] : j \in DOMAIN q }

IsPermutation(a, b) ==
  /\ Len(a) = Len(b)
  /\ Range(a) = Range(b)
  /\ Cardinality(Range(a)) = Len(a)

C17_BatchPermutation ==
  (pc = "apps" /\ idx \in 1..Len(resourceList)) =>
    LET own == GenerateValidPodsFromResources(resourceList[idx].Name,
                                              resourceList[idx].Resource)
        daemon == IF log = <<>>
                  THEN GenerateValidDaemonPodsForNewNode(nodes, nDaemonSets)
                  ELSE <<>>
    IN  /\ IsPermutation(SubmittedPods, own \o daemon)
        /\ ~UseGreed => SubmittedPods = own \o daemon

C17_Witness ==
  /\ pc = "apps"
  /\ idx \in 1..Len(resourceList)
  /\ UseGreed
  /\ i >= 1
  /\ log = <<>>
  /\ nDaemonSets >= 1
  /\ SubmittedPods # ExpandedPods

(* C18: after a successful session the config map file is the one written   *)
(* in the last round after the last application of the list was scheduled.  *)
C18_FinalReport ==
  outcome = "succeeded" => report = [k |-> reportedK, apps |-> Len(AppList)]

(* C19: no simulator is left open when Run has returned, and no two are     *)
(* open at once.                                                            *)
C19_AllClosed ==
  /\ Cardinality(openSims) <= 1
  /\ pc = "setup" => openSims = {}
  /\ pc = "done" => openSims = {}

====
